---- MODULE Spec2Model ----
(***************************************************************************)
(* A model of Backend/app/workflows/NewStock_workflow.py: one run of       *)
(* NewStockWorkflow started through run_new_stock_workflow, and the caller *)
(* protocol  handler = await run_new_stock_workflow(...); await handler.   *)
(* ServeSpec puts the two endpoints in the caller's place: handle_messages  *)
(* (controllers/handle_messages.py) with its stream and its stored         *)
(* messages, and send_message_sync (routes/routes.py).  MultiSpec has       *)
(* several runs at once.                                                   *)
(*                                                                         *)
(* Scores are kept in half points (Pts(8) is the score 8.0), so that the    *)
(* thresholds and int() see fractional scores.  A text is a record naming   *)
(* the text, never the characters, except the score line of the narrative.  *)
(***************************************************************************)
EXTENDS Integers, Sequences, FiniteSets, TLC

\* ---------------------------------------------------------------- bounds

\* Largest whole score the scoring collaborator answers with in the model.
MaxScore == 11
\* The collaborator's lowest score in the model is -BelowZero.
BelowZero == 1

\* ------------------------------------------------------------- constants

\* The number of ResponseEvents analyzer_agent collects: [ResponseEvent]*4.
ExpectedCount == 4

\* ----------------------------------------------------------------- texts

Pts(n) == 2 * n

\* The four analysis kinds, in the order their events are declared and their
\* prompt fields are named.
KindOrder == <<"marketing", "leadership", "competitor", "report">>

Kinds == {KindOrder[i] : i \in 1..Len(KindOrder)}

Queries == {"meta", "Analyze Meta"}

\* str(summary): what the research agent found for kind k.
Summary(k) == [kind |-> k, ok |-> TRUE]

\* f"Error in <kind> analysis: {str(e)}"
ErrorText(k) == [kind |-> k, ok |-> FALSE]

ResponseEvent(q, text) == [user_query |-> q, response |-> text]

Range(s) == {s[i] : i \in 1..Len(s)}

\* s contains t as a contiguous piece.
Contains(s, t) == \E i \in 0..(Len(s) - Len(t)) : SubSeq(s, i + 1, i + Len(t)) = t

\* ------------------------------------------------------ the analysis steps

\* try: summary = await search_agent.run(prompt); return ResponseEvent(...)
\* except Exception: return ResponseEvent(..., response=error_response)
\* outcome is what search_agent.run did: "ok" or "raise".  The value is the
\* events the step returns and whether an exception left the step.
AnalysisStep(k, q, outcome) ==
    IF outcome = "ok"
    THEN [events |-> <<ResponseEvent(q, Summary(k))>>, raised |-> FALSE]
    ELSE [events |-> <<ResponseEvent(q, ErrorText(k))>>, raised |-> FALSE]

\* The step with its except clause missing: the exception leaves the step.
AnalysisStepReraises(k, q, outcome) ==
    IF outcome = "ok"
    THEN [events |-> <<ResponseEvent(q, Summary(k))>>, raised |-> FALSE]
    ELSE [events |-> <<>>, raised |-> TRUE]

\* The step with an except clause that returns nothing.
AnalysisStepSwallows(k, q, outcome) ==
    IF outcome = "ok"
    THEN [events |-> <<ResponseEvent(q, Summary(k))>>, raised |-> FALSE]
    ELSE [events |-> <<>>, raised |-> FALSE]

leadership_change_agent_swallows(q, outcome) ==
    AnalysisStepSwallows("leadership", q, outcome)

marketing_signal_agent_reraises(q, outcome) ==
    AnalysisStepReraises("marketing", q, outcome)

marketing_signal_agent(q, outcome) == AnalysisStep("marketing", q, outcome)

leadership_change_agent(q, outcome) == AnalysisStep("leadership", q, outcome)

competitor_ad_spend_agent(q, outcome) == AnalysisStep("competitor", q, outcome)

three_month_report_agent(q, outcome) == AnalysisStep("report", q, outcome)

StepFor(k, q, outcome) ==
    CASE k = "marketing" -> marketing_signal_agent(q, outcome)
      [] k = "leadership" -> leadership_change_agent(q, outcome)
      [] k = "competitor" -> competitor_ad_spend_agent(q, outcome)
      [] k = "report" -> three_month_report_agent(q, outcome)

\* ------------------------------------------------------------ the context

\* A step's returned event is put on the queue of the step that accepts it.
SendEventKeepsOnlyLatest(queue, ev) == <<ev>>

SendEvent(queue, ev) == Append(queue, ev)

\* collect_events buffering the incoming event twice.
CollectEventsCountsTwice(buf, ev, n) ==
    LET all == buf \o <<ev, ev>>
    IN  IF Len(all) >= n
        THEN [ready |-> SubSeq(all, 1, n), buffer |-> SubSeq(all, n + 1, Len(all))]
        ELSE [ready |-> <<>>, buffer |-> all]

\* collect_events returning the events without taking them from the buffer.
CollectEventsKeepsBuffer(buf, ev, n) ==
    LET all == Append(buf, ev)
    IN  IF Len(all) >= n
        THEN [ready |-> SubSeq(all, 1, n), buffer |-> all]
        ELSE [ready |-> <<>>, buffer |-> all]

\* ctx.collect_events(ev, expected) with every expected type the same type:
\* ev is appended to the buffer of its type; one buffered event is popped
\* from the front for each expected type; when that gives all of them they
\* are returned (in buffer order), otherwise they are put back and the
\* answer is None (here <<>>).
CollectEvents(buf, ev, n) ==
    LET all == Append(buf, ev)
    IN  IF Len(all) >= n
        THEN [ready |-> SubSeq(all, 1, n), buffer |-> SubSeq(all, n + 1, Len(all))]
        ELSE [ready |-> <<>>, buffer |-> all]

\* ANALYZER_PROMPT.format(marketing=ready[0].response, ...): the prompt's four
\* fields, filled by position.
AnalyzerPrompt(ready) ==
    [marketing |-> ready[1].response,
     leadership |-> ready[2].response,
     competitor |-> ready[3].response,
     report |-> ready[4].response]

\* ------------------------------------------------------------ the scoring

\* A score: a finite number of half points, or one of the two floats that
\* float() and json.loads also produce.
Num(v) == [tag |-> "num", v |-> v]

NaN == [tag |-> "nan", v |-> 0]

Inf == [tag |-> "inf", v |-> 0]

ZeroScore == Num(0)

NumericScores == {Num(v) : v \in (0 - Pts(BelowZero))..Pts(MaxScore)}

\* What the propensity_score field of the parsed JSON holds: a float, no such
\* key, or a value float() rejects.
Absent == [tag |-> "absent", v |-> 0]

Unconvertible == [tag |-> "unconvertible", v |-> 0]

ScoreFields == NumericScores \cup {NaN, Inf, Absent, Unconvertible}

\* A text, as far as the code looks at it: where it comes from, and whether
\* it has leading or trailing whitespace.
Text(src, pad) == [src |-> src, pad |-> pad]

\* str.strip()
Strip(t) == [t EXCEPT !.pad = FALSE]

\* What openai_llm.acomplete(prompt) does for the scoring prompt: it raises
\* ("raise"), or it answers a text: one json.loads rejects ("nonjson"), one
\* that parses to something other than an object ("nonobject"), or a JSON
\* object ("json") with its propensity_score (ps) and its rationale: a
\* string, no such key ("absent"), or a value that is no string ("nonstring").
\* pad: the text has whitespace around it.
ScoringResponse(kind, ps, rationale, pad) ==
    [kind |-> kind, ps |-> ps, rationale |-> rationale, pad |-> pad]

RationaleFields == {"string", "absent", "nonstring"}

ScoringResponses ==
    {ScoringResponse("raise", Absent, "absent", FALSE),
     ScoringResponse("nonobject", Absent, "absent", FALSE)}
        \cup {ScoringResponse("nonjson", Absent, "absent", pad) : pad \in BOOLEAN}
        \cup {ScoringResponse("json", f, "string", FALSE) : f \in ScoreFields}
        \cup {ScoringResponse("json", f, r, FALSE) :
                f \in {Absent, Unconvertible, Num(Pts(8))}, r \in RationaleFields}
        \cup {ScoringResponse("json", Unconvertible, "string", TRUE)}

\* response.text
RawText(resp) == Text("raw", resp.pad)

\* f"Error in analyzer agent: {str(e)}"
AnalyzerErrorText == Text("error", FALSE)

\* result.get("rationale", "")
RationaleField(resp) ==
    IF resp.rationale = "absent" THEN Text("empty", FALSE) ELSE Text("field", FALSE)

\* The except branch keeping the response text as it came.
InnerParseUnstripped(resp) ==
    IF resp.kind = "json" /\ resp.ps.tag # "unconvertible"
    THEN [score |-> IF resp.ps.tag = "absent" THEN ZeroScore ELSE resp.ps,
          rationale |-> RationaleField(resp),
          valid |-> resp.rationale # "nonstring"]
    ELSE [score |-> ZeroScore, rationale |-> RawText(resp), valid |-> TRUE]

\* The inner try of analyzer_agent: json.loads(json_text), then
\* float(result.get("propensity_score", 0)) and result.get("rationale", "");
\* any exception among them gives score 0.0 and the stripped response text.
\* valid: the rationale is a str, which AnalyzerResponseEvent requires.
InnerParse(resp) ==
    IF resp.kind = "json" /\ resp.ps.tag # "unconvertible"
    THEN [score |-> IF resp.ps.tag = "absent" THEN ZeroScore ELSE resp.ps,
          rationale |-> RationaleField(resp),
          valid |-> resp.rationale # "nonstring"]
    ELSE [score |-> ZeroScore, rationale |-> Strip(RawText(resp)), valid |-> TRUE]

\* The outer try of analyzer_agent: the scoring call raising, or the event's
\* construction rejecting the rationale, gives score 0.0 and the error text.
AnalyzerOutcome(resp) ==
    IF resp.kind = "raise" \/ ~InnerParse(resp).valid
    THEN [score |-> ZeroScore, rationale |-> AnalyzerErrorText]
    ELSE [score |-> InnerParse(resp).score, rationale |-> InnerParse(resp).rationale]

\* The propensity_score of the AnalyzerResponseEvent.
ParsedScore(resp) == AnalyzerOutcome(resp).score

\* The rationale of the AnalyzerResponseEvent.
ParsedRationale(resp) == AnalyzerOutcome(resp).rationale

AnalyzerResponseEvent(q, rationale, score) ==
    [user_query |-> q, rationale |-> rationale, propensity_score |-> score]

\* ------------------------------------------------------------- the report

\* response.text.strip() of the report call, or f"Error in report generation".
ReportText(outcome) == [ok |-> outcome = "ok"]

ReportGeneratedEvent(q, text, score) ==
    [user_query |-> q, response |-> text, propensity_score |-> score]

\* The strategic_recommendations of the scoring answer: the JSON objects of
\* ScoringResponses that have a rationale string list one recommendation,
\* the other answers none.
ResponseRecommendations(resp) ==
    IF resp.kind = "json" /\ resp.rationale = "string" THEN <<"a">> ELSE <<>>

\* getattr(ev, name, default): the event's field, or the default when the
\* event has no such field.
GetAttr(ev, name, default) == IF name \in DOMAIN ev THEN ev[name] ELSE default

\* REPORT_PROMPT.format(...) in report_agent: the fields the template gets.
\* The default '' of the recommendations is the empty sequence here.
ReportPrompt(ev) ==
    [company_name |-> [extracted_from |-> ev.user_query],
     propensity_score |-> ev.propensity_score,
     rationale |-> ev.rationale,
     strategic_recommendations |-> GetAttr(ev, "strategic_recommendations", <<>>)]

\* report_agent with a failure path that returns the score 0.0.
report_agent_resets_score(ev, outcome) ==
    ReportGeneratedEvent(ev.user_query, ReportText(outcome),
                         IF outcome = "ok" THEN ev.propensity_score ELSE ZeroScore)

\* report_agent after its LLM call returned or raised: both paths return one
\* ReportGeneratedEvent carrying the incoming score.
report_agent(ev, outcome) ==
    ReportGeneratedEvent(ev.user_query, ReportText(outcome), ev.propensity_score)

\* ------------------------------------------------------------ final_answer

\* The comparison read as >.
ScoreGEStrict(s, n) ==
    CASE s.tag = "num" -> s.v > Pts(n)
      [] s.tag = "inf" -> TRUE
      [] OTHER -> FALSE

\* propensity_score >= n for a float score and a whole number n.
ScoreGE(s, n) ==
    CASE s.tag = "num" -> s.v >= Pts(n)
      [] s.tag = "inf" -> TRUE
      [] OTHER -> FALSE

ScoreCategory(s) ==
    IF ScoreGE(s, 8) THEN "High"
    ELSE IF ScoreGE(s, 5) THEN "Medium"
    ELSE "Low"

VisualIndicator(s) ==
    IF ScoreGE(s, 8) THEN "green High"
    ELSE IF ScoreGE(s, 5) THEN "yellow Medium"
    ELSE "red Low"

\* int(propensity_score) raises ValueError for nan and OverflowError for inf.
IntRaises(s) == s.tag # "num"

\* A rendered text is the sequence of its characters; a piece the model never
\* looks into is one element.
Digits == <<"0", "1", "2", "3", "4", "5", "6", "7", "8", "9">>

RECURSIVE IntStr(_)
\* str(n) of a whole number n >= 0.
IntStr(n) ==
    IF n < 10 THEN <<Digits[n + 1]>>
    ELSE IntStr(n \div 10) \o <<Digits[(n % 10) + 1]>>

Abs(v) == IF v < 0 THEN 0 - v ELSE v

\* The score rendered as a whole number when it is one.
FloatStrAsInt(s) ==
    CASE s.tag = "nan" -> <<"n", "a", "n">>
      [] s.tag = "inf" -> <<"i", "n", "f">>
      [] OTHER ->
            (IF s.v < 0 THEN <<"-">> ELSE <<>>)
                \o IntStr(Abs(s.v) \div 2)
                \o (IF Abs(s.v) % 2 = 0 THEN <<>> ELSE <<".", "5">>)

\* f"{propensity_score}" of a float: 8.0 is "8.0", 8.5 is "8.5".
FloatStr(s) ==
    CASE s.tag = "nan" -> <<"n", "a", "n">>
      [] s.tag = "inf" -> <<"i", "n", "f">>
      [] OTHER ->
            (IF s.v < 0 THEN <<"-">> ELSE <<>>)
                \o IntStr(Abs(s.v) \div 2)
                \o <<".">>
                \o (IF Abs(s.v) % 2 = 0 THEN <<"0">> ELSE <<"5">>)

\* f"**Score:** {propensity_score}/10 ({score_category} Propensity)"
ScoreLine(s, category) ==
    <<"**Score:** ">> \o FloatStr(s) \o <<"/", "1", "0">>
        \o <<" (", category, " Propensity)">>

\* int(propensity_score) of a number: the fraction is cut off, toward zero.
IntOf(s) == IF s.v < 0 THEN 0 - (Abs(s.v) \div 2) ELSE s.v \div 2

\* c * n of a one-character string c: n times c, and nothing when n <= 0.
Times(c, n) == IF n <= 0 THEN <<>> ELSE [i \in 1..n |-> c]

\* The width of the bar.
BarCells == 10

\* score_bar = full * int(propensity_score) + empty * (10 - int(propensity_score))
ScoreBar(s) ==
    Times("full", IntOf(s)) \o Times("empty", BarCells - IntOf(s))

\* enhanced_response: the title with the query, the score line, the bar of
\* the visual line and, after the rule, the report text.  (The bar and the
\* percentage of the visual line hold no "/".)
EnhancedResponse(ev, category) ==
    [form |-> "analysis",
     score_line |-> ScoreLine(ev.propensity_score, category),
     score_bar |-> ScoreBar(ev.propensity_score),
     body |-> ev.response]

\* The result with its score brought into [0, 10].
FinalResultClamped(ev) ==
    LET s == ev.propensity_score
        c == IF s.tag # "num" THEN s
             ELSE IF s.v < Pts(0) THEN Num(Pts(0))
             ELSE IF s.v > Pts(10) THEN Num(Pts(10))
             ELSE s
    IN  [response |-> EnhancedResponse(ev, ScoreCategory(c)),
         user_query |-> ev.user_query,
         propensity_score |-> c,
         score_category |-> ScoreCategory(c),
         visual_indicator |-> VisualIndicator(c)]

FinalResult(ev) ==
    [response |-> EnhancedResponse(ev, ScoreCategory(ev.propensity_score)),
     user_query |-> ev.user_query,
     propensity_score |-> ev.propensity_score,
     score_category |-> ScoreCategory(ev.propensity_score),
     visual_indicator |-> VisualIndicator(ev.propensity_score)]

\* The value is the StopEvent's result and whether an exception left the step.
final_answer(ev) ==
    IF IntRaises(ev.propensity_score)
    THEN [result |-> <<>>, raised |-> TRUE]
    ELSE [result |-> <<FinalResult(ev)>>, raised |-> FALSE]

\* The except branch of run_new_stock_workflow.
FallbackResult(q) ==
    [response |-> [form |-> "fallback",
                   score_line |-> <<"**Score:** ", "Unable to calculate">>,
                   body |-> [ok |-> FALSE]],
     user_query |-> q,
     propensity_score |-> ZeroScore,
     score_category |-> "Error",
     visual_indicator |-> "red Error"]

\* ------------------------------------------------------------------ state

VARIABLES
    sup,          \* the run's supervisor state
    userQuery,    \* the user_query the run was started with
    callerPc,     \* where the caller is in its two awaits
    handlerKind,  \* what run_new_stock_workflow returned
    future,       \* the workflow handler's future
    callerGot,    \* what "await handler" gave the caller
    startQ,       \* the StartEvent, until trigger_new_stock takes it
    requestQ,     \* the analysis request events not yet taken by their step
    agentSt,      \* each analysis step: idle, running (awaiting), done
    agentIn,      \* the request event each analysis step was called with
    agentOut,     \* what search_agent.run did in each step: none, ok, raise
    emitted,      \* the ResponseEvents each analysis step has returned
    responseQ,    \* analyzer_agent's queue of ResponseEvents
    buffer,       \* the context's buffer of collected ResponseEvents
    collected,    \* how many collect_events calls the run has made
    ready,        \* what the passing collect_events call returned
    prompt,       \* the scoring prompt's four fields
    scoringCalls, \* how many scoring calls analyzer_agent has made
    scoringWait,  \* how many of them have neither returned nor raised
    scoringResp,  \* what the scoring call answered
    analyzerQ,    \* report_agent's queue of AnalyzerResponseEvents
    reportQ,      \* final_answer's queue of ReportGeneratedEvents
    raisedIn,     \* the steps an exception has left
    queuedFirst,  \* all four ResponseEvents were queued before any was collected
    entry,        \* who called: direct, stream (handle_messages), sync
    conv,         \* the conversation's message log in the store
    msgId,        \* handle_messages' message_Id
    frames,       \* the frames event_generator has yielded
    reply,        \* what the endpoint returned besides a stream
    runs,         \* concurrent runs: each run's state
    ctxBuffer,    \* concurrent runs: each Context's buffer of ResponseEvents
    arg,          \* a function on its own: the argument it is called with
    out           \* a function on its own: what the call gave

vars ==
    <<sup, userQuery, callerPc, handlerKind, future, callerGot, startQ, requestQ,
      agentSt, agentIn, agentOut, emitted, responseQ, buffer, collected, ready, prompt,
      scoringCalls, scoringWait, scoringResp, analyzerQ, reportQ, raisedIn,
      queuedFirst, entry, conv, msgId, frames, reply, runs, ctxBuffer, arg, out>>

callerVars == <<callerPc, callerGot>>

serveVars == <<entry, conv, msgId, frames, reply>>

multiVars == <<runs, ctxBuffer>>

pureVars == <<arg, out>>

singleVars ==
    <<sup, userQuery, callerPc, handlerKind, future, callerGot, startQ, requestQ,
      agentSt, agentIn, agentOut, emitted, responseQ, buffer, collected, ready, prompt,
      scoringCalls, scoringWait, scoringResp, analyzerQ, reportQ, raisedIn,
      queuedFirst, entry, conv, msgId, frames, reply>>

pipelineVars ==
    <<startQ, requestQ, agentSt, agentIn, agentOut, emitted, responseQ, buffer, collected,
      ready, prompt, scoringCalls, scoringWait, scoringResp, analyzerQ, reportQ, queuedFirst>>

Terminal == {"Completed", "TimedOut", "Failed"}

Pending == [state |-> "pending", result |-> <<>>, exc |-> "none"]

Resolved(result) == [state |-> "result", result |-> <<result>>, exc |-> "none"]

Excepted(exc) == [state |-> "exception", result |-> <<>>, exc |-> exc]

Init ==
    /\ sup = "Created"
    /\ userQuery \in Queries
    /\ callerPc = "idle"
    /\ handlerKind = "none"
    /\ future = Pending
    /\ callerGot = [state |-> "nothing", result |-> <<>>, exc |-> "none"]
    /\ startQ = FALSE
    /\ requestQ = {}
    /\ agentSt = [k \in Kinds |-> "idle"]
    /\ agentIn = [k \in Kinds |-> <<>>]
    /\ agentOut = [k \in Kinds |-> "none"]
    /\ emitted = [k \in Kinds |-> <<>>]
    /\ responseQ = <<>>
    /\ buffer = <<>>
    /\ collected = 0
    /\ ready = <<>>
    /\ prompt = <<>>
    /\ scoringCalls = 0
    /\ scoringWait = 0
    /\ scoringResp = <<>>
    /\ analyzerQ = <<>>
    /\ reportQ = <<>>
    /\ raisedIn = {}
    /\ queuedFirst = FALSE
    /\ entry = "direct"
    /\ conv = <<>>
    /\ msgId = 0
    /\ frames = <<>>
    /\ reply = "none"
    /\ runs = <<>>
    /\ ctxBuffer = <<>>
    /\ arg = <<>>
    /\ out = <<>>

\* ------------------------------------------------------- the run supervisor

\* The caller awaits run_new_stock_workflow(user_query, ...): the try block
\* is entered.
CallRun ==
    /\ sup = "Created"
    /\ callerPc = "idle"
    /\ sup' = "Running"
    /\ callerPc' = "in_run"
    /\ UNCHANGED <<userQuery, handlerKind, future, callerGot, raisedIn>>
    /\ UNCHANGED pipelineVars
    /\ UNCHANGED serveVars
    /\ UNCHANGED multiVars
    /\ UNCHANGED pureVars

\* workflow = NewStockWorkflow(timeout=300); handler = workflow.run(...);
\* return handler.  The run starts with its StartEvent and its deadline timer.
WorkflowRun ==
    /\ sup = "Running"
    /\ callerPc = "in_run"
    /\ handlerKind' = "workflow"
    /\ startQ' = TRUE
    /\ callerPc' = "has_handler"
    /\ UNCHANGED <<sup, userQuery, future, callerGot, raisedIn>>
    /\ UNCHANGED <<requestQ, agentSt, agentIn, agentOut, emitted, responseQ, buffer,
                   collected, ready, prompt, scoringCalls, scoringWait, scoringResp, analyzerQ,
                   reportQ, queuedFirst>>
    /\ UNCHANGED serveVars
    /\ UNCHANGED multiVars
    /\ UNCHANGED pureVars

\* Constructing or starting the workflow raises: the except branch returns
\* type('Handler', (), {'result': fallback_result})().
WorkflowRaises ==
    /\ sup = "Running"
    /\ callerPc = "in_run"
    /\ handlerKind' = "fallback"
    /\ sup' = "Failed"
    /\ callerPc' = "has_handler"
    /\ UNCHANGED <<userQuery, future, callerGot, raisedIn>>
    /\ UNCHANGED pipelineVars
    /\ UNCHANGED serveVars
    /\ UNCHANGED multiVars
    /\ UNCHANGED pureVars

\* The deadline of NewStockWorkflow(timeout=300) passes before the run is
\* done: the run's steps are cancelled and the handler's future gets
\* WorkflowTimeoutError.
TimeoutUnguarded ==
    /\ handlerKind = "workflow"
    /\ sup' = "TimedOut"
    /\ future' = Excepted("WorkflowTimeoutError")
    /\ UNCHANGED <<userQuery, handlerKind, raisedIn>>
    /\ UNCHANGED callerVars
    /\ UNCHANGED pipelineVars
    /\ UNCHANGED serveVars
    /\ UNCHANGED multiVars
    /\ UNCHANGED pureVars

Timeout ==
    /\ sup = "Running"
    /\ handlerKind = "workflow"
    /\ future.state = "pending"
    /\ sup' = "TimedOut"
    /\ future' = Excepted("WorkflowTimeoutError")
    /\ UNCHANGED <<userQuery, handlerKind, raisedIn>>
    /\ UNCHANGED callerVars
    /\ UNCHANGED pipelineVars
    /\ UNCHANGED serveVars
    /\ UNCHANGED multiVars
    /\ UNCHANGED pureVars

\* result = await handler.  A workflow handler gives its future's result or
\* raises its exception, once the future is done; the fallback object is not
\* awaitable, and awaiting it raises TypeError.
AwaitOutcome(kind, fut) ==
    IF kind = "fallback"
    THEN [state |-> "exception", result |-> <<>>, exc |-> "TypeError"]
    ELSE fut

AwaitHandler ==
    /\ callerPc = "has_handler"
    /\ handlerKind = "workflow" => future.state # "pending"
    /\ callerGot' = AwaitOutcome(handlerKind, future)
    /\ callerPc' = "done"
    /\ UNCHANGED <<sup, userQuery, handlerKind, future, raisedIn>>
    /\ UNCHANGED pipelineVars
    /\ UNCHANGED serveVars
    /\ UNCHANGED multiVars
    /\ UNCHANGED pureVars

\* ------------------------------------------------------------- the steps

\* An exception leaves step name: the run ends with the handler's future
\* holding it.
StepRaised(name) ==
    /\ sup' = "Failed"
    /\ future' = Excepted("WorkflowRuntimeError")
    /\ raisedIn' = raisedIn \cup {name}

\* A request event that does not take the start event's query.
RequestEventEmptyQuery(k, q) == [kind |-> k, user_query |-> ""]

RequestEvent(k, q) == [kind |-> k, user_query |-> q]

\* trigger_new_stock: four ctx.send_event calls, one event of each kind, each
\* with ev.user_query; the step returns nothing.
TriggerNewStock ==
    /\ sup = "Running"
    /\ startQ
    /\ startQ' = FALSE
    /\ requestQ' = requestQ \cup {RequestEvent(k, userQuery) : k \in Kinds}
    /\ UNCHANGED <<sup, userQuery, handlerKind, future, raisedIn>>
    /\ UNCHANGED callerVars
    /\ UNCHANGED <<agentSt, agentIn, agentOut, emitted, responseQ, buffer, collected, ready,
                   prompt, scoringCalls, scoringWait, scoringResp, analyzerQ, reportQ, queuedFirst>>
    /\ UNCHANGED serveVars
    /\ UNCHANGED multiVars
    /\ UNCHANGED pureVars

\* An analysis step takes its request event and awaits search_agent.run.
AgentBegin(k) ==
    /\ sup = "Running"
    /\ agentSt[k] = "idle"
    /\ \E ev \in requestQ :
        /\ ev.kind = k
        /\ requestQ' = requestQ \ {ev}
        /\ agentIn' = [agentIn EXCEPT ![k] = <<ev>>]
    /\ agentSt' = [agentSt EXCEPT ![k] = "running"]
    /\ UNCHANGED <<sup, userQuery, handlerKind, future, raisedIn>>
    /\ UNCHANGED callerVars
    /\ UNCHANGED <<startQ, agentOut, emitted, responseQ, buffer, collected, ready,
                   prompt, scoringCalls, scoringWait, scoringResp, analyzerQ, reportQ, queuedFirst>>
    /\ UNCHANGED serveVars
    /\ UNCHANGED multiVars
    /\ UNCHANGED pureVars

\* search_agent.run returns or raises, and the step runs to its end.
AgentFinish(k, outcome) ==
    /\ sup = "Running"
    /\ agentSt[k] = "running"
    /\ LET r == StepFor(k, agentIn[k][1].user_query, outcome)
           q == IF r.events = <<>> THEN responseQ ELSE SendEvent(responseQ, r.events[1])
       IN  /\ emitted' = [emitted EXCEPT ![k] = emitted[k] \o r.events]
           /\ responseQ' = q
           /\ queuedFirst' = (queuedFirst \/ (Len(q) = ExpectedCount /\ collected = 0))
           /\ IF r.raised
              THEN StepRaised(k)
              ELSE UNCHANGED <<sup, future, raisedIn>>
    /\ agentSt' = [agentSt EXCEPT ![k] = "done"]
    /\ agentOut' = [agentOut EXCEPT ![k] = outcome]
    /\ UNCHANGED <<userQuery, handlerKind>>
    /\ UNCHANGED callerVars
    /\ UNCHANGED <<startQ, requestQ, agentIn, buffer, collected, ready, prompt,
                   scoringCalls, scoringWait, scoringResp, analyzerQ, reportQ>>
    /\ UNCHANGED serveVars
    /\ UNCHANGED multiVars
    /\ UNCHANGED pureVars

\* analyzer_agent is called with the next ResponseEvent: collect_events, and
\* return None unless it gave the four events; otherwise build the prompt and
\* await the scoring call.
AnalyzerCollect ==
    /\ sup = "Running"
    /\ responseQ # <<>>
    /\ LET r == CollectEvents(buffer, Head(responseQ), ExpectedCount)
       IN  /\ buffer' = r.buffer
           /\ IF r.ready = <<>>
              THEN UNCHANGED <<ready, prompt, scoringCalls, scoringWait>>
              ELSE /\ ready' = r.ready
                   /\ prompt' = <<AnalyzerPrompt(r.ready)>>
                   /\ scoringCalls' = scoringCalls + 1
                   /\ scoringWait' = scoringWait + 1
    /\ responseQ' = Tail(responseQ)
    /\ collected' = collected + 1
    /\ UNCHANGED <<sup, userQuery, handlerKind, future, raisedIn>>
    /\ UNCHANGED callerVars
    /\ UNCHANGED <<startQ, requestQ, agentSt, agentIn, agentOut, emitted,
                   scoringResp, analyzerQ, reportQ, queuedFirst>>
    /\ UNCHANGED serveVars
    /\ UNCHANGED multiVars
    /\ UNCHANGED pureVars

\* analyzer_agent with its outer except missing: a raising scoring call
\* leaves the step.
AnalyzerScoreReraises(resp) ==
    /\ sup = "Running"
    /\ scoringWait > 0
    /\ scoringWait' = scoringWait - 1
    /\ scoringResp' = <<resp>>
    /\ IF resp.kind = "raise"
       THEN /\ StepRaised("analyzer_agent")
            /\ UNCHANGED analyzerQ
       ELSE /\ analyzerQ' = Append(analyzerQ,
                                   AnalyzerResponseEvent(ready[Len(ready)].user_query,
                                                         ParsedRationale(resp),
                                                         ParsedScore(resp)))
            /\ UNCHANGED <<sup, future, raisedIn>>
    /\ UNCHANGED <<userQuery, handlerKind>>
    /\ UNCHANGED callerVars
    /\ UNCHANGED <<startQ, requestQ, agentSt, agentIn, agentOut, emitted, responseQ, buffer,
                   collected, ready, prompt, scoringCalls, reportQ, queuedFirst>>
    /\ UNCHANGED serveVars
    /\ UNCHANGED multiVars
    /\ UNCHANGED pureVars

\* The scoring call returns or raises; the answer is parsed and the step
\* returns its AnalyzerResponseEvent (both excepts return one too).
AnalyzerScore(resp) ==
    /\ sup = "Running"
    /\ scoringWait > 0
    /\ scoringWait' = scoringWait - 1
    /\ scoringResp' = <<resp>>
    /\ analyzerQ' = Append(analyzerQ,
                           AnalyzerResponseEvent(ready[Len(ready)].user_query,
                                                 ParsedRationale(resp),
                                                 ParsedScore(resp)))
    /\ UNCHANGED <<sup, userQuery, handlerKind, future, raisedIn>>
    /\ UNCHANGED callerVars
    /\ UNCHANGED <<startQ, requestQ, agentSt, agentIn, agentOut, emitted, responseQ, buffer,
                   collected, ready, prompt, scoringCalls, reportQ, queuedFirst>>
    /\ UNCHANGED serveVars
    /\ UNCHANGED multiVars
    /\ UNCHANGED pureVars

\* report_agent with its text-generation call returning or raising.
ReportAgent(outcome) ==
    /\ sup = "Running"
    /\ analyzerQ # <<>>
    /\ analyzerQ' = Tail(analyzerQ)
    /\ reportQ' = Append(reportQ, report_agent(Head(analyzerQ), outcome))
    /\ UNCHANGED <<sup, userQuery, handlerKind, future, raisedIn>>
    /\ UNCHANGED callerVars
    /\ UNCHANGED <<startQ, requestQ, agentSt, agentIn, agentOut, emitted, responseQ, buffer,
                   collected, ready, prompt, scoringCalls, scoringWait, scoringResp, queuedFirst>>
    /\ UNCHANGED serveVars
    /\ UNCHANGED multiVars
    /\ UNCHANGED pureVars

\* final_answer: its StopEvent ends the run with the result, unless int()
\* raised.
FinalAnswer ==
    /\ sup = "Running"
    /\ reportQ # <<>>
    /\ reportQ' = Tail(reportQ)
    /\ LET r == final_answer(Head(reportQ))
       IN  IF r.raised
           THEN StepRaised("final_answer")
           ELSE /\ sup' = "Completed"
                /\ future' = Resolved(r.result[1])
                /\ UNCHANGED raisedIn
    /\ UNCHANGED <<userQuery, handlerKind>>
    /\ UNCHANGED callerVars
    /\ UNCHANGED <<startQ, requestQ, agentSt, agentIn, agentOut, emitted, responseQ, buffer,
                   collected, ready, prompt, scoringCalls, scoringWait, scoringResp, analyzerQ,
                   queuedFirst>>
    /\ UNCHANGED serveVars
    /\ UNCHANGED multiVars
    /\ UNCHANGED pureVars

\* ------------------------------------------------------- the conversation

\* A stored message without a message_id field has NoId here.
NoId == 0

\* {"role": "user", "content": message, "timestamp": ...}
UserMessage(content) == [role |-> "user", content |-> content, message_id |-> NoId]

\* {"message_id": message_Id, "role": "assistant", "content": ..., ...}
AssistantMessage(id, content) == [role |-> "assistant", content |-> content, message_id |-> id]

\* The conversation document, or no document with that _id.
Conversation(messages) == [exists |-> TRUE, messages |-> messages]

NoConversation == [exists |-> FALSE, messages |-> <<>>]

\* update_one(..., {"$push": {"messages": msg}}): no document, no change.
Push(c, msg) ==
    IF c.exists THEN [c EXCEPT !.messages = Append(@, msg)] ELSE c

\* str(final_result): the text of the whole dict.
StrOf(result) == [kind |-> "str", of |-> result]

\* f"## Propensity Score Analysis: {message}\n\n**Error:** Unable to complete
\* analysis. ...\n\n*Technical details: {str(e)}*"
ErrorNotice(message, exc) == [kind |-> "error", user_query |-> message, exc |-> exc]

\* A conversation that handle_messages served once before, with a run that
\* timed out: the user message, and the assistant message with the
\* message_Id of that request.
PriorLog ==
    <<UserMessage("meta"),
      AssistantMessage(2, ErrorNotice("meta", "WorkflowTimeoutError"))>>

\* hasattr(final_result, 'result') and final_result.result: what the handler
\* gives is the StopEvent's result, a dict, and a dict has no attribute result.
HasResultAttr(final_result) == "result" \in DOMAIN final_result

\* clean_response of event_generator.
CleanResponse(final_result, message) ==
    IF HasResultAttr(final_result)
    THEN [kind |-> "clean",
          response |-> final_result.result.response,
          user_query |-> final_result.result.user_query,
          propensity_score |-> final_result.result.propensity_score,
          score_category |-> final_result.result.score_category]
    ELSE [kind |-> "clean",
          response |-> StrOf(final_result),
          user_query |-> message,
          propensity_score |-> ZeroScore,
          score_category |-> "Unknown"]

\* "*Analysis completed with score: 0.0/100 (Error)*"
ScoreNotice == [kind |-> "score", propensity_score |-> ZeroScore, score_category |-> "Error"]

\* "[DONE]"
Done == [kind |-> "done"]

\* The payloads of the "data: ..." frames event_generator yields for what
\* "await handler" gave: one on the try path, three on the except path.
StreamFrames(got, message) ==
    IF got.state = "result"
    THEN <<CleanResponse(got.result[1], message)>>
    ELSE <<ErrorNotice(message, got.exc), ScoreNotice, Done>>

\* final_response_with_metadata: the text stored as the assistant's message.
StoredText(got, message) ==
    IF got.state = "result"
    THEN CleanResponse(got.result[1], message).response
    ELSE ErrorNotice(message, got.exc)

HasMessageId(messages, id) == \E i \in 1..Len(messages) : messages[i].message_id = id

\* The store at the end of event_generator: the text is put in front of the
\* content of the messages that have this message_id, or, when there is none,
\* pushed as a new assistant message.
StoreAssistant(c, id, text) ==
    IF ~c.exists THEN c
    ELSE IF HasMessageId(c.messages, id)
         THEN [c EXCEPT !.messages =
                  [i \in 1..Len(@) |->
                      IF @[i].message_id = id
                      THEN [@[i] EXCEPT !.content = [kind |-> "concat", first |-> text, rest |-> @]]
                      ELSE @[i]]]
         ELSE Push(c, AssistantMessage(id, text))

\* A message_Id that counts the assistant messages of the log.
MessageIdCountsReplies(c) ==
    Cardinality({i \in 1..Len(c.messages) : c.messages[i].role = "assistant"}) + 1

\* message_Id = len(result.get("messages", [])) + 1, of the document after
\* the user message was pushed.
MessageId(c) == Len(c.messages) + 1

\* handle_messages without the test of the conversation it found: the user
\* message is pushed with an upsert and the run is started.
StreamBeginUnchecked ==
    /\ entry = "stream"
    /\ sup = "Created"
    /\ callerPc = "idle"
    /\ conv' = Push(Conversation(conv.messages), UserMessage(userQuery))
    /\ msgId' = MessageId(conv')
    /\ sup' = "Running"
    /\ callerPc' = "in_run"
    /\ UNCHANGED reply
    /\ UNCHANGED <<userQuery, handlerKind, future, callerGot, raisedIn, entry, frames>>
    /\ UNCHANGED pipelineVars
    /\ UNCHANGED multiVars
    /\ UNCHANGED pureVars

\* handle_messages up to the call of run_new_stock_workflow: no conversation,
\* ValueError and the ApiResponse with status 500; otherwise the user message
\* is pushed and message_Id is the log's new length plus one.
StreamBegin ==
    /\ entry = "stream"
    /\ sup = "Created"
    /\ callerPc = "idle"
    /\ IF conv.exists
       THEN /\ conv' = Push(conv, UserMessage(userQuery))
            /\ msgId' = MessageId(conv')
            /\ sup' = "Running"
            /\ callerPc' = "in_run"
            /\ UNCHANGED reply
       ELSE /\ reply' = "ApiResponse 500"
            /\ callerPc' = "done"
            /\ UNCHANGED <<conv, msgId, sup>>
    /\ UNCHANGED <<userQuery, handlerKind, future, callerGot, raisedIn, entry, frames>>
    /\ UNCHANGED pipelineVars
    /\ UNCHANGED multiVars
    /\ UNCHANGED pureVars

\* event_generator up to its last yield: final_result = await handler, and
\* the frames of the try path or of the except path.
StreamAwait ==
    /\ entry = "stream"
    /\ callerPc = "has_handler"
    /\ handlerKind = "workflow" => future.state # "pending"
    /\ callerGot' = AwaitOutcome(handlerKind, future)
    /\ frames' = StreamFrames(AwaitOutcome(handlerKind, future), userQuery)
    /\ callerPc' = "yielded"
    /\ UNCHANGED <<sup, userQuery, handlerKind, future, raisedIn, entry, conv, msgId, reply>>
    /\ UNCHANGED pipelineVars
    /\ UNCHANGED multiVars
    /\ UNCHANGED pureVars

\* event_generator after its last yield: the assistant's message is stored.
StreamStore ==
    /\ entry = "stream"
    /\ callerPc = "yielded"
    /\ conv' = StoreAssistant(conv, msgId, StoredText(callerGot, userQuery))
    /\ callerPc' = "done"
    /\ UNCHANGED <<sup, userQuery, handlerKind, future, callerGot, raisedIn, entry, msgId,
                   frames, reply>>
    /\ UNCHANGED pipelineVars
    /\ UNCHANGED multiVars
    /\ UNCHANGED pureVars

\* send_message_sync enters its try block and calls run_new_stock_workflow.
SyncBegin ==
    /\ entry = "sync"
    /\ sup = "Created"
    /\ callerPc = "idle"
    /\ sup' = "Running"
    /\ callerPc' = "in_run"
    /\ UNCHANGED <<userQuery, handlerKind, future, callerGot, raisedIn>>
    /\ UNCHANGED pipelineVars
    /\ UNCHANGED serveVars
    /\ UNCHANGED multiVars
    /\ UNCHANGED pureVars

\* send_message_sync storing the user message before it awaits the run.
SyncAwaitStoresFirst ==
    /\ entry = "sync"
    /\ callerPc = "has_handler"
    /\ handlerKind = "workflow" => future.state # "pending"
    /\ callerGot' = AwaitOutcome(handlerKind, future)
    /\ IF AwaitOutcome(handlerKind, future).state = "result"
       THEN /\ conv' = Push(Push(conv, UserMessage(userQuery)),
                            [role |-> "assistant",
                             content |-> CleanResponse(future.result[1], userQuery).response,
                             message_id |-> NoId])
            /\ reply' = "report"
       ELSE /\ reply' = "error report"
            /\ conv' = Push(conv, UserMessage(userQuery))
    /\ callerPc' = "done"
    /\ UNCHANGED <<sup, userQuery, handlerKind, future, raisedIn, entry, msgId, frames>>
    /\ UNCHANGED pipelineVars
    /\ UNCHANGED multiVars
    /\ UNCHANGED pureVars

\* send_message_sync from  final_result = await handler  on: with a result the
\* user message and the assistant message are pushed and a report is
\* returned; with an exception the except branch returns the error report.
SyncAwait ==
    /\ entry = "sync"
    /\ callerPc = "has_handler"
    /\ handlerKind = "workflow" => future.state # "pending"
    /\ callerGot' = AwaitOutcome(handlerKind, future)
    /\ IF AwaitOutcome(handlerKind, future).state = "result"
       THEN /\ conv' = Push(Push(conv, UserMessage(userQuery)),
                            [role |-> "assistant",
                             content |-> CleanResponse(future.result[1], userQuery).response,
                             message_id |-> NoId])
            /\ reply' = "report"
       ELSE /\ reply' = "error report"
            /\ UNCHANGED conv
    /\ callerPc' = "done"
    /\ UNCHANGED <<sup, userQuery, handlerKind, future, raisedIn, entry, msgId, frames>>
    /\ UNCHANGED pipelineVars
    /\ UNCHANGED multiVars
    /\ UNCHANGED pureVars

\* The research call of an analysis step ends after the deadline cancelled
\* the step, and its result is handed to the step as if it still ran.
LateResultDelivered(k, outcome) ==
    /\ sup = "TimedOut"
    /\ agentSt[k] = "running"
    /\ agentSt' = [agentSt EXCEPT ![k] = "done"]
    /\ emitted' = [emitted EXCEPT ![k] = emitted[k] \o <<ResponseEvent(userQuery, Summary(k))>>]
    /\ responseQ' = SendEvent(responseQ, ResponseEvent(userQuery, Summary(k)))
    /\ UNCHANGED <<sup, userQuery, handlerKind, future, raisedIn>>
    /\ UNCHANGED callerVars
    /\ UNCHANGED <<startQ, requestQ, agentIn, agentOut, buffer, collected, ready, prompt,
                   scoringCalls, scoringWait, scoringResp, analyzerQ, reportQ, queuedFirst>>
    /\ UNCHANGED serveVars
    /\ UNCHANGED multiVars
    /\ UNCHANGED pureVars

\* The research call of an analysis step ends after the deadline: the step's
\* task was cancelled with the run, so there is nothing to take the result.
LateResult(k, outcome) ==
    /\ sup = "TimedOut"
    /\ agentSt[k] = "running"
    /\ agentSt' = [agentSt EXCEPT ![k] = "cancelled"]
    /\ UNCHANGED <<sup, userQuery, handlerKind, future, raisedIn>>
    /\ UNCHANGED callerVars
    /\ UNCHANGED <<startQ, requestQ, agentIn, agentOut, emitted, responseQ, buffer, collected,
                   ready, prompt, scoringCalls, scoringWait, scoringResp, analyzerQ, reportQ,
                   queuedFirst>>
    /\ UNCHANGED serveVars
    /\ UNCHANGED multiVars
    /\ UNCHANGED pureVars

\* ---------------------------------------------------------- concurrent runs

\* How many runs run_new_stock_workflow has started at the same time.
NumRuns == 2

RunIds == 1..NumRuns

\* The user_query of each run.
RunQueries == <<"meta", "Analyze Meta", "Analyze Tesla", "Analyze Acme">>

QueryOf(r) == RunQueries[r]

\* Every run sharing the Context of the first.
ContextOfShared(r) == 1

\* workflow = NewStockWorkflow(...); workflow.run(...): every call makes a
\* workflow and a run of its own, and the run's steps get the Context of that
\* run.
ContextOf(r) == r

\* The research agent returns in every analysis step, and the scoring call
\* answers a JSON object with a score.
MultiOutcomes == {"ok"}

MultiResponses == {ScoringResponse("json", Num(Pts(8)), "string", FALSE)}

\* run_new_stock_workflow(QueryOf(r), ...): trigger_new_stock sends the four
\* request events with the run's user_query.
RunStart(r) ==
    /\ runs[r].st = "created"
    /\ runs' = [runs EXCEPT ![r].st = "running", ![r].waiting = Kinds]
    /\ UNCHANGED ctxBuffer
    /\ UNCHANGED singleVars
    /\ UNCHANGED pureVars

\* An analysis step of run r returns its ResponseEvent and analyzer_agent is
\* called with it: collect_events on the run's Context, and with the four
\* events the prompt and the scoring call.
RunAgentFinish(r, k, outcome) ==
    /\ runs[r].st = "running"
    /\ k \in runs[r].waiting
    /\ LET ev == StepFor(k, QueryOf(r), outcome).events[1]
           c == CollectEvents(ctxBuffer[ContextOf(r)], ev, ExpectedCount)
       IN  /\ ctxBuffer' = [ctxBuffer EXCEPT ![ContextOf(r)] = c.buffer]
           /\ runs' = [runs EXCEPT ![r].waiting = @ \ {k},
                                   ![r].sent = @ + 1,
                                   ![r].ready = IF c.ready = <<>> THEN @ ELSE c.ready,
                                   ![r].prompt = IF c.ready = <<>> THEN @
                                                 ELSE <<AnalyzerPrompt(c.ready)>>,
                                   ![r].last = <<ev>>]
    /\ UNCHANGED singleVars
    /\ UNCHANGED pureVars

\* The scoring call of run r ends; analyzer_agent returns its event with
\* ev.user_query, report_agent its report and final_answer the result.
RunScore(r, resp, outcome) ==
    /\ runs[r].st = "running"
    /\ runs[r].ready # <<>>
    /\ LET scored == AnalyzerResponseEvent(runs[r].last[1].user_query,
                                           ParsedRationale(resp), ParsedScore(resp))
       IN  runs' = [runs EXCEPT ![r].st = "done",
                                ![r].result = final_answer(report_agent(scored, outcome)).result]
    /\ UNCHANGED ctxBuffer
    /\ UNCHANGED singleVars
    /\ UNCHANGED pureVars

\* ------------------------------------------- requests on one conversation

\* How many requests are served on the conversation at the same time.
NumRequests == 2

RequestIds == 1..NumRequests

\* What "await handler" gives a request: the run's result, or the deadline's
\* exception.
RequestOutcomes(q) ==
    {Resolved(FinalResult(ReportGeneratedEvent(q, ReportText("ok"), Num(Pts(8))))),
     Excepted("WorkflowTimeoutError")}

\* The variables the requests on one conversation leave alone.
requestFrame ==
    <<sup, userQuery, callerPc, handlerKind, future, callerGot, raisedIn, startQ, requestQ,
      agentSt, agentIn, agentOut, emitted, responseQ, buffer, collected, ready, prompt,
      scoringCalls, scoringWait, scoringResp, analyzerQ, reportQ, queuedFirst,
      entry, msgId, frames, reply, ctxBuffer, arg, out>>

\* handle_messages of request r up to the returned StreamingResponse: the user
\* message is pushed and message_Id computed from the returned document.
RequestBegin(r) ==
    /\ runs[r].entry = "stream"
    /\ runs[r].pc = "idle"
    /\ conv' = Push(conv, UserMessage(QueryOf(r)))
    /\ runs' = [runs EXCEPT ![r].pc = "running", ![r].msgId = MessageId(conv')]
    /\ UNCHANGED requestFrame

\* event_generator of request r: the run ended with got, the frames are
\* yielded and the assistant's text is stored.
RequestStore(r, got) ==
    /\ runs[r].entry = "stream"
    /\ runs[r].pc = "running"
    /\ conv' = StoreAssistant(conv, runs[r].msgId, StoredText(got, QueryOf(r)))
    /\ runs' = [runs EXCEPT ![r].pc = "done",
                            ![r].merged = HasMessageId(conv.messages, runs[r].msgId)]
    /\ UNCHANGED requestFrame

\* send_message_sync of request r, as far as the store sees it: both messages
\* are pushed once the run gave a result, none when it raised.
RequestSync(r, got) ==
    /\ runs[r].entry = "sync"
    /\ runs[r].pc = "idle"
    /\ conv' = IF got.state = "result"
               THEN Push(Push(conv, UserMessage(QueryOf(r))),
                         [role |-> "assistant",
                          content |-> CleanResponse(got.result[1], QueryOf(r)).response,
                          message_id |-> NoId])
               ELSE conv
    /\ runs' = [runs EXCEPT ![r].pc = "done"]
    /\ UNCHANGED requestFrame

\* ------------------------------------------------------ the company name

\* Longest query text, in characters.
MaxQueryLen == 4

\* Every sequence over S of at most n elements.
SeqsUpTo(S, n) == UNION {[1..k -> S] : k \in 0..n}

LowerLetters == <<"m", "e", "t", "a", "x">>

UpperLetters == <<"M", "E", "T", "A", "X">>

IndexIn(letters, c) == CHOOSE i \in 1..Len(letters) : letters[i] = c

IsLower(c) == c \in Range(LowerLetters)

IsUpper(c) == c \in Range(UpperLetters)

\* The characters a query is written with.
QueryChars == {"m", "e", "t", "a", "x", "M", " "}

QueryTexts == SeqsUpTo(QueryChars, MaxQueryLen)

LowerChar(c) == IF IsUpper(c) THEN LowerLetters[IndexIn(UpperLetters, c)] ELSE c

UpperChar(c) == IF IsLower(c) THEN UpperLetters[IndexIn(LowerLetters, c)] ELSE c

\* str.lower()
LowerChars(t) == [i \in 1..Len(t) |-> LowerChar(t[i])]

RECURSIVE StripChars(_)
\* str.strip()
StripChars(t) ==
    IF t = <<>> THEN t
    ELSE IF Head(t) = " " THEN StripChars(Tail(t))
    ELSE IF t[Len(t)] = " " THEN StripChars(SubSeq(t, 1, Len(t) - 1))
    ELSE t

\* str.title(): a letter is upper case when no letter comes before it, and
\* lower case otherwise.
TitleChars(t) ==
    [i \in 1..Len(t) |->
        IF i = 1 \/ ~(IsLower(t[i - 1]) \/ IsUpper(t[i - 1]))
        THEN UpperChar(t[i])
        ELSE LowerChar(t[i])]

\* company_mappings, in the order of the dict: the entries whose keys can be
\* written with QueryChars.
CompanyMappings ==
    <<[key |-> <<"m", "e", "t", "a">>, value |-> "Meta Platforms Inc."],
      [key |-> <<"x">>, value |-> "X (formerly Twitter)"]>>

\* What _extract_company_name returns: a company of the table, or a text.
Company(name) == [company |-> name, text |-> <<>>]

Titled(t) == [company |-> "", text |-> t]

\* key in query_lower or query_lower in key
PartialMatch(key, query_lower) == Contains(query_lower, key) \/ Contains(key, query_lower)

\* _extract_company_name(user_query)
extract_company_name(user_query) ==
    LET query_lower == StripChars(LowerChars(user_query))
        exact == {i \in 1..Len(CompanyMappings) : CompanyMappings[i].key = query_lower}
        partial == {i \in 1..Len(CompanyMappings) :
                        PartialMatch(CompanyMappings[i].key, query_lower)}
    IN  IF exact # {}
        THEN Company(CompanyMappings[CHOOSE i \in exact : TRUE].value)
        ELSE IF partial # {}
             THEN Company(CompanyMappings[CHOOSE i \in partial :
                                              \A j \in partial : i <= j].value)
             ELSE Titled(TitleChars(StripChars(user_query)))

\* The variables a function on its own leaves alone.
pureFrame ==
    <<sup, userQuery, callerPc, handlerKind, future, callerGot, startQ, requestQ,
      agentSt, agentIn, agentOut, emitted, responseQ, buffer, collected, ready, prompt,
      scoringCalls, scoringWait, scoringResp, analyzerQ, reportQ, raisedIn,
      queuedFirst, entry, conv, msgId, frames, reply, runs, ctxBuffer>>

\* A call of _extract_company_name with the query arg.
ExtractCall ==
    /\ out = <<>>
    /\ out' = <<extract_company_name(arg)>>
    /\ UNCHANGED arg
    /\ UNCHANGED pureFrame

\* ------------------------------------------------- the text parsed as JSON

\* Longest response text, in pieces.
MaxTextLen == 4

\* The pieces of a response text the selection looks at: the opening fence
\* (three backquotes and json), a bare fence (three backquotes), the braces,
\* a blank and any other character.
Fence == "[fence]json"

BareFence == "[fence]"

TextPieces == {Fence, BareFence, "{", "}", " ", "x"}

ResponseTexts == SeqsUpTo(TextPieces, MaxTextLen)

\* The places of the pieces of t that are in S.
Places(t, S) == {i \in 1..Len(t) : t[i] \in S}

Min(S) == CHOOSE i \in S : \A j \in S : i <= j

Max(S) == CHOOSE i \in S : \A j \in S : i >= j

\* The selection of analyzer_agent: response_text = response.text.strip();
\* with an opening fence in it, the text from behind the first one up to the
\* next fence (find gives -1 when there is none, and the slice [start:-1] then
\* ends before the last character), stripped; otherwise the text from the
\* first "{" to the last "}" when both are found; otherwise response_text.
JsonText(text) ==
    LET response_text == StripChars(text)
        opening == Places(response_text, {Fence})
        open == Places(response_text, {"{"})
        close == Places(response_text, {"}"})
    IN  IF opening # {}
        THEN LET start == Min(opening)
                 closing == {i \in Places(response_text, {Fence, BareFence}) : i > start}
             IN  IF closing # {}
                 THEN StripChars(SubSeq(response_text, start + 1, Min(closing) - 1))
                 ELSE StripChars(SubSeq(response_text, start + 1, Len(response_text) - 1))
        ELSE IF open # {} /\ close # {}
             THEN SubSeq(response_text, Min(open), Max(close))
             ELSE response_text

\* The selection, applied to the response text arg.
JsonTextCall ==
    /\ out = <<>>
    /\ out' = <<JsonText(arg)>>
    /\ UNCHANGED arg
    /\ UNCHANGED pureFrame

\* ------------------------------------------------------- the join alone

\* Most ResponseEvents delivered to analyzer_agent.
MaxArrivals == 5

\* The ResponseEvents delivered to analyzer_agent, in order, by the kind of
\* the step each comes from.
Arrivals == SeqsUpTo(Kinds, MaxArrivals)

\* analyzer_agent called with the next ResponseEvent, as far as the join:
\* collect_events, and None unless it gave the four events.
JoinDeliver ==
    /\ arg # <<>>
    /\ LET ev == ResponseEvent("meta", Summary(Head(arg)))
           r == CollectEvents(out.buffer, ev, ExpectedCount)
       IN  out' = [buffer |-> r.buffer,
                   ready |-> IF r.ready = <<>> THEN out.ready ELSE r.ready,
                   delivered |-> Append(out.delivered, ev)]
    /\ arg' = Tail(arg)
    /\ UNCHANGED pureFrame

\* ---------------------------------------------------------- specification

Outcomes == {"ok", "raise"}

Next ==
    \/ CallRun
    \/ WorkflowRun
    \/ WorkflowRaises
    \/ Timeout
    \/ AwaitHandler
    \/ TriggerNewStock
    \/ \E k \in Kinds : AgentBegin(k)
    \/ \E k \in Kinds, o \in Outcomes : AgentFinish(k, o)
    \/ AnalyzerCollect
    \/ \E resp \in ScoringResponses : AnalyzerScore(resp)
    \/ \E o \in Outcomes : ReportAgent(o)
    \/ FinalAnswer

Spec == Init /\ [][Next]_vars

\* The event loop runs every step that can run and the deadline timer fires
\* when due; the calls to the outside (the research agent, the LLM) may never
\* return, so the actions that end them are not fair.
Fairness ==
    /\ WF_vars(CallRun)
    /\ WF_vars(WorkflowRun \/ WorkflowRaises)
    /\ WF_vars(Timeout)
    /\ WF_vars(AwaitHandler)
    /\ WF_vars(TriggerNewStock)
    /\ WF_vars(\E k \in Kinds : AgentBegin(k))
    /\ WF_vars(AnalyzerCollect)
    /\ WF_vars(FinalAnswer)

FairSpec == Spec /\ Fairness

\* The messages sent to the two endpoints.
Messages == {"Analyze Meta"}

\* A request to handle_messages, on a conversation that exists or not, or to
\* send_message_sync.
ServeInit ==
    /\ sup = "Created"
    /\ userQuery \in Messages
    /\ callerPc = "idle"
    /\ handlerKind = "none"
    /\ future = Pending
    /\ callerGot = [state |-> "nothing", result |-> <<>>, exc |-> "none"]
    /\ startQ = FALSE
    /\ requestQ = {}
    /\ agentSt = [k \in Kinds |-> "idle"]
    /\ agentIn = [k \in Kinds |-> <<>>]
    /\ agentOut = [k \in Kinds |-> "none"]
    /\ emitted = [k \in Kinds |-> <<>>]
    /\ responseQ = <<>>
    /\ buffer = <<>>
    /\ collected = 0
    /\ ready = <<>>
    /\ prompt = <<>>
    /\ scoringCalls = 0
    /\ scoringWait = 0
    /\ scoringResp = <<>>
    /\ analyzerQ = <<>>
    /\ reportQ = <<>>
    /\ raisedIn = {}
    /\ queuedFirst = FALSE
    /\ entry \in {"stream", "sync"}
    /\ conv \in {Conversation(PriorLog), NoConversation}
    /\ entry = "sync" => conv.exists
    /\ msgId = 0
    /\ frames = <<>>
    /\ reply = "none"
    /\ runs = <<>>
    /\ ctxBuffer = <<>>
    /\ arg = <<>>
    /\ out = <<>>

ServeNext ==
    \/ StreamBegin
    \/ SyncBegin
    \/ WorkflowRun
    \/ WorkflowRaises
    \/ Timeout
    \/ StreamAwait
    \/ StreamStore
    \/ SyncAwait
    \/ TriggerNewStock
    \/ \E k \in Kinds : AgentBegin(k)
    \/ \E k \in Kinds, o \in Outcomes : AgentFinish(k, o)
    \/ \E k \in Kinds, o \in Outcomes : LateResult(k, o)
    \/ AnalyzerCollect
    \/ \E resp \in ScoringResponses : AnalyzerScore(resp)
    \/ \E o \in Outcomes : ReportAgent(o)
    \/ FinalAnswer

ServeSpec == ServeInit /\ [][ServeNext]_vars

\* NumRuns runs, each created with its own query and its own empty Context.
MultiInit ==
    /\ sup = "Created"
    /\ userQuery = QueryOf(1)
    /\ callerPc = "idle"
    /\ handlerKind = "none"
    /\ future = Pending
    /\ callerGot = [state |-> "nothing", result |-> <<>>, exc |-> "none"]
    /\ startQ = FALSE
    /\ requestQ = {}
    /\ agentSt = [k \in Kinds |-> "idle"]
    /\ agentIn = [k \in Kinds |-> <<>>]
    /\ agentOut = [k \in Kinds |-> "none"]
    /\ emitted = [k \in Kinds |-> <<>>]
    /\ responseQ = <<>>
    /\ buffer = <<>>
    /\ collected = 0
    /\ ready = <<>>
    /\ prompt = <<>>
    /\ scoringCalls = 0
    /\ scoringWait = 0
    /\ scoringResp = <<>>
    /\ analyzerQ = <<>>
    /\ reportQ = <<>>
    /\ raisedIn = {}
    /\ queuedFirst = FALSE
    /\ entry = "direct"
    /\ conv = <<>>
    /\ msgId = 0
    /\ frames = <<>>
    /\ reply = "none"
    /\ runs = [r \in RunIds |->
                 [st |-> "created", waiting |-> {}, sent |-> 0, ready |-> <<>>,
                  prompt |-> <<>>, last |-> <<>>, result |-> <<>>]]
    /\ ctxBuffer = [c \in RunIds |-> <<>>]
    /\ arg = <<>>
    /\ out = <<>>

MultiNext ==
    \/ \E r \in RunIds : RunStart(r)
    \/ \E r \in RunIds, k \in Kinds, o \in MultiOutcomes : RunAgentFinish(r, k, o)
    \/ \E r \in RunIds, resp \in MultiResponses, o \in MultiOutcomes : RunScore(r, resp, o)

MultiSpec == MultiInit /\ [][MultiNext]_vars

\* No run of the single-run model has started.
NoRun ==
    /\ sup = "Created"
    /\ userQuery = QueryOf(1)
    /\ callerPc = "idle"
    /\ handlerKind = "none"
    /\ future = Pending
    /\ callerGot = [state |-> "nothing", result |-> <<>>, exc |-> "none"]
    /\ startQ = FALSE
    /\ requestQ = {}
    /\ agentSt = [k \in Kinds |-> "idle"]
    /\ agentIn = [k \in Kinds |-> <<>>]
    /\ agentOut = [k \in Kinds |-> "none"]
    /\ emitted = [k \in Kinds |-> <<>>]
    /\ responseQ = <<>>
    /\ buffer = <<>>
    /\ collected = 0
    /\ ready = <<>>
    /\ prompt = <<>>
    /\ scoringCalls = 0
    /\ scoringWait = 0
    /\ scoringResp = <<>>
    /\ analyzerQ = <<>>
    /\ reportQ = <<>>
    /\ raisedIn = {}
    /\ queuedFirst = FALSE
    /\ entry = "direct"
    /\ msgId = 0
    /\ frames = <<>>
    /\ reply = "none"

\* NumRequests requests, each to handle_messages or to send_message_sync, on
\* one conversation: a new one, or one served before.
ConvInit ==
    /\ NoRun
    /\ conv \in {Conversation(<<>>), Conversation(PriorLog)}
    /\ runs \in [RequestIds ->
                   {[entry |-> e, pc |-> "idle", msgId |-> 0, merged |-> FALSE] :
                        e \in {"stream", "sync"}}]
    /\ ctxBuffer = <<>>
    /\ arg = <<>>
    /\ out = <<>>

ConvNext ==
    \/ \E r \in RequestIds : RequestBegin(r)
    \/ \E r \in RequestIds : \E got \in RequestOutcomes(QueryOf(r)) : RequestStore(r, got)
    \/ \E r \in RequestIds : \E got \in RequestOutcomes(QueryOf(r)) : RequestSync(r, got)

ConvSpec == ConvInit /\ [][ConvNext]_vars

\* Nothing but the function under the call runs.
NoServing == NoRun /\ conv = <<>> /\ runs = <<>> /\ ctxBuffer = <<>>

ExtractInit ==
    /\ NoServing
    /\ arg \in QueryTexts
    /\ out = <<>>

ExtractNext == ExtractCall

ExtractSpec == ExtractInit /\ [][ExtractNext]_vars

JsonTextInit ==
    /\ NoServing
    /\ arg \in ResponseTexts
    /\ out = <<>>

JsonTextNext == JsonTextCall

JsonTextSpec == JsonTextInit /\ [][JsonTextNext]_vars

JoinInit ==
    /\ NoServing
    /\ arg \in Arrivals
    /\ out = [buffer |-> <<>>, ready |-> <<>>, delivered |-> <<>>]

JoinNext == JoinDeliver

JoinSpec == JoinInit /\ [][JoinNext]_vars

\* ----------------------------------------------------------------- claims

JoinPassed == scoringCalls > 0

KindsOf(events) == {events[i].response.kind : i \in 1..Len(events)}

\* C1: the scoring prompt's four fields hold the analysis texts by kind, in
\* the order marketing, leadership, competitor, report, whatever order the
\* four analysis steps finished in.
C1_PromptFieldsByKind ==
    prompt # <<>> =>
        /\ prompt[1].marketing.kind = "marketing"
        /\ prompt[1].leadership.kind = "leadership"
        /\ prompt[1].competitor.kind = "competitor"
        /\ prompt[1].report.kind = "report"

\* C2: the join does not pass, no scoring call is made and no
\* AnalyzerResponseEvent is emitted before four ResponseEvents, one of each
\* analysis kind, have been recorded; an invocation that sees fewer emits
\* nothing.
C2_JoinNeedsFour ==
    /\ collected < Cardinality(Kinds) =>
        /\ ~JoinPassed
        /\ ready = <<>>
        /\ prompt = <<>>
        /\ scoringWait = 0
        /\ analyzerQ = <<>>
        /\ reportQ = <<>>
        /\ future.state # "result"
    /\ JoinPassed =>
        /\ Len(ready) = Cardinality(Kinds)
        /\ KindsOf(ready) = Kinds

C2_Witness == JoinPassed /\ collected = Cardinality(Kinds) /\ analyzerQ # <<>>

\* C3: no ResponseEvent is dropped: every one a step returned is queued,
\* buffered or in the join's input, and when the join passes its input holds
\* the response text of each of the four steps; also when all four were
\* queued before analyzer_agent ran at all.
C3_NoEventDropped ==
    /\ \A k \in Kinds :
        Range(emitted[k]) \subseteq Range(responseQ) \cup Range(buffer) \cup Range(ready)
    /\ JoinPassed =>
        \A k \in Kinds :
            /\ emitted[k] # <<>>
            /\ \E i \in 1..Len(ready) : ready[i].response = emitted[k][1].response

C3_Witness == queuedFirst /\ JoinPassed

\* C4: an analysis step that has run to its end has returned exactly one
\* ResponseEvent, with the summary when the research agent returned and the
\* error text when it raised; no exception leaves an analysis step.
C4_OneResponseEach ==
    \A k \in Kinds :
        /\ k \notin raisedIn
        /\ Len(emitted[k]) = (IF agentSt[k] = "done" THEN 1 ELSE 0)
        /\ agentSt[k] = "done" =>
            emitted[k][1] =
                ResponseEvent(userQuery,
                              IF agentOut[k] = "ok" THEN Summary(k) ELSE ErrorText(k))

C4_Witness ==
    /\ \A k \in Kinds : agentSt[k] = "done"
    /\ \E k \in Kinds : agentOut[k] = "raise"
    /\ \E k \in Kinds : agentOut[k] = "ok"

\* The steps of the run itself: every action but the deadline and the caller.
PipelineNext ==
    \/ TriggerNewStock
    \/ \E k \in Kinds : AgentBegin(k)
    \/ \E k \in Kinds, o \in Outcomes : AgentFinish(k, o)
    \/ AnalyzerCollect
    \/ \E resp \in ScoringResponses : AnalyzerScore(resp)
    \/ \E o \in Outcomes : ReportAgent(o)
    \/ FinalAnswer

RaisedKinds == {k \in Kinds : agentOut[k] = "raise"}

OneAnalysisRaised ==
    /\ Cardinality(RaisedKinds) = 1
    /\ \A k \in Kinds \ RaisedKinds : agentOut[k] = "ok"

\* C5: with the research agent raising in one analysis step and returning in
\* the other three, the raise ends nothing: the run goes on to the terminal
\* step, the join's input holds that step's error text beside the three
\* summaries, and the result the run completes with has the category High,
\* Medium or Low.
C5_FailureIsolated ==
    OneAnalysisRaised =>
        /\ raisedIn \cap Kinds = {}
        /\ sup = "Running" => ENABLED PipelineNext
        /\ JoinPassed =>
            {ready[i].response : i \in 1..Len(ready)} =
                {IF k \in RaisedKinds THEN ErrorText(k) ELSE Summary(k) : k \in Kinds}
        /\ sup = "Completed" =>
            /\ future.state = "result"
            /\ future.result[1].score_category \in {"High", "Medium", "Low"}

C5_Witness ==
    /\ OneAnalysisRaised
    /\ callerPc = "done"
    /\ callerGot.state = "result"
    /\ callerGot.result[1].score_category = "High"

CallerHasResult == callerPc = "done" /\ callerGot.state = "result"

\* C6: every run started through run_new_stock_workflow reaches a terminal
\* state and delivers a final result to the caller, also when an analysis
\* task never resolves.
C6_RunDeliversResult ==
    (handlerKind = "workflow") ~> (sup \in Terminal /\ CallerHasResult)

\* The part of C6 the code keeps: no run stays Running for ever, and the
\* caller's await ends.
RunTerminates == <>(sup \in Terminal /\ callerPc = "done")

\* C7: when the deadline passes before the terminal event, the caller that
\* awaits the run gets the fallback result (propensity_score 0, score_category
\* "Error", the fields of a normal result) and no exception.
C7_TimeoutGivesFallback ==
    (sup = "TimedOut" /\ callerPc = "done") =>
        /\ callerGot.state = "result"
        /\ callerGot.result[1] = FallbackResult(userQuery)

\* C8: when constructing or starting the workflow raises, the caller gets the
\* fallback result by  handler = await run_new_stock_workflow(...)  and
\* result = await handler.
C8_ConstructFailureGivesFallback ==
    (handlerKind = "fallback" /\ callerPc = "done") =>
        /\ callerGot.state = "result"
        /\ callerGot.result[1] = FallbackResult(userQuery)

LegalMove ==
    \/ sup' = sup
    \/ sup = "Created" /\ sup' = "Running"
    \/ sup = "Running" /\ sup' \in Terminal

\* C9: the supervisor state only moves Created -> Running -> one of
\* Completed, TimedOut, Failed; a terminal state is never left, so a run
\* enters at most one.
C9_SupervisorMoves == [][LegalMove]_vars

C9_Witness == sup = "Completed" /\ callerPc = "done" /\ handlerKind = "workflow"

\* C10: every result returned to the caller has its propensity_score within
\* [0, 10], whatever number the scoring response held.
C10_ScoreInRange ==
    CallerHasResult =>
        /\ callerGot.result[1].propensity_score.tag = "num"
        /\ callerGot.result[1].propensity_score.v >= Pts(0)
        /\ callerGot.result[1].propensity_score.v <= Pts(10)

\* The category and the indicator the thresholds give a score, nan comparing
\* false with everything and inf being above every number.
ByThresholds(s) ==
    IF s.tag = "inf" \/ (s.tag = "num" /\ s.v >= 16)
    THEN [category |-> "High", indicator |-> "green High"]
    ELSE IF s.tag = "num" /\ s.v >= 10
         THEN [category |-> "Medium", indicator |-> "yellow Medium"]
         ELSE [category |-> "Low", indicator |-> "red Low"]

ExampleRun ==
    /\ userQuery = "Analyze Meta"
    /\ \A k \in Kinds : agentOut[k] = "ok"
    /\ scoringResp = <<ScoringResponse("json", Num(Pts(8)), "string", FALSE)>>

\* C15 as stated: the example run's result has score 8, category High and a
\* narrative containing "8/10".
C15_ExampleNarrative ==
    (ExampleRun /\ future.state = "result") =>
        /\ future.result[1].propensity_score = Num(Pts(8))
        /\ future.result[1].score_category = "High"
        /\ Contains(future.result[1].response.score_line, <<"8", "/", "1", "0">>)

\* C15: the example run's result has score 8, category High and a narrative
\* whose score line renders the float score, "8.0/10"; it holds no "8/10".
C15_ExampleRendersFloat ==
    (ExampleRun /\ future.state = "result") =>
        /\ future.result[1].propensity_score = Num(Pts(8))
        /\ future.result[1].score_category = "High"
        /\ Contains(future.result[1].response.score_line,
                    <<"8", ".", "0", "/", "1", "0">>)
        /\ ~Contains(future.result[1].response.score_line, <<"8", "/", "1", "0">>)

C15_Witness == ExampleRun /\ callerPc = "done" /\ callerGot.state = "result"

\* C19 as stated: a scoring answer json.loads rejects gives an
\* AnalyzerResponseEvent with score 0 and the response text as it came.
C19_RawVerbatim ==
    (analyzerQ # <<>> /\ scoringResp[1].kind = "nonjson") =>
        /\ analyzerQ[1].propensity_score = ZeroScore
        /\ analyzerQ[1].rationale = RawText(scoringResp[1])

\* C19: a scoring answer json.loads rejects gives an AnalyzerResponseEvent
\* with score 0 and, as rationale, the response text without its leading and
\* trailing whitespace.
C19_RawStripped ==
    (analyzerQ # <<>> /\ scoringResp[1].kind = "nonjson") =>
        /\ analyzerQ[1].propensity_score = ZeroScore
        /\ analyzerQ[1].rationale = Text("raw", FALSE)

C19_Witness ==
    /\ analyzerQ # <<>>
    /\ scoringResp[1].kind = "nonjson"
    /\ scoringResp[1].pad

\* C20: the score is always populated; a JSON object whose propensity_score
\* is absent or not convertible gives score 0 with the rationale of the
\* JSON's rationale field; the response text is the rationale only when
\* json.loads rejected the answer.
C20_RationaleFromJson ==
    analyzerQ # <<>> =>
        /\ analyzerQ[1].propensity_score.tag \in {"num", "nan", "inf"}
        /\ (/\ scoringResp[1].kind = "json"
            /\ scoringResp[1].ps.tag \in {"absent", "unconvertible"}
            /\ scoringResp[1].rationale = "string") =>
                /\ analyzerQ[1].propensity_score = ZeroScore
                /\ analyzerQ[1].rationale = Text("field", FALSE)
        /\ analyzerQ[1].rationale.src = "raw" => scoringResp[1].kind = "nonjson"

DataFrames == {i \in 1..Len(frames) : frames[i] # Done}

\* C11: every result delivered to the caller, the one "await handler" gives
\* and the one in the stream's data frame, has score_category High, Medium,
\* Low or Error.
C11_CategoryKnown ==
    /\ callerGot.state = "result" =>
        callerGot.result[1].score_category \in {"High", "Medium", "Low", "Error"}
    /\ \A i \in 1..Len(frames) :
        frames[i].kind = "clean" =>
            frames[i].score_category \in {"High", "Medium", "Low", "Error"}

\* C12: the data frame of a completed run carries the response text, the
\* user_query, the propensity_score and the score_category of the result
\* final_answer produced for that run.
C12_FrameCarriesResult ==
    (entry = "stream" /\ sup = "Completed" /\ frames # <<>>) =>
        /\ frames[1].kind = "clean"
        /\ frames[1].response = future.result[1].response
        /\ frames[1].user_query = future.result[1].user_query
        /\ frames[1].propensity_score = future.result[1].propensity_score
        /\ frames[1].score_category = future.result[1].score_category

\* C13: whatever the run's outcome, the stream of handle_messages is exactly
\* one data frame carrying the result, and then "[DONE]" as the last frame.
C13_OneFrameThenDone ==
    (entry = "stream" /\ callerPc \in {"yielded", "done"} /\ sup \in Terminal) =>
        /\ Cardinality(DataFrames) = 1
        /\ frames[1].kind = "clean"
        /\ frames[Len(frames)] = Done

\* What the caller of a timed-out run is given: the exception, the three
\* frames of the except path, the error notice as the stored text.
TimeoutOutcomeOnly ==
    /\ callerGot.state # "result"
    /\ callerPc \in {"yielded", "done"} =>
        /\ callerGot.exc = "WorkflowTimeoutError"
        /\ entry = "stream" =>
            frames = <<ErrorNotice(userQuery, "WorkflowTimeoutError"), ScoreNotice, Done>>
    /\ callerPc = "done" =>
        /\ entry = "stream" =>
            conv.messages =
                PriorLog \o <<UserMessage(userQuery),
                              AssistantMessage(msgId,
                                               ErrorNotice(userQuery, "WorkflowTimeoutError"))>>
        /\ entry = "sync" => (conv.messages = PriorLog /\ reply = "error report")

\* C16: once the run has timed out, a research call that ends later changes
\* neither the run's state nor its future nor any step's queue, nothing that
\* was delivered changes again, and what is delivered is the timeout's error
\* outcome alone: no score or report of the run in a frame, a stored message
\* or the reply.
C16_LateResultsDiscarded ==
    [][sup = "TimedOut" =>
          /\ sup' = "TimedOut"
          /\ future' = future
          /\ <<emitted, responseQ, buffer, ready, analyzerQ, reportQ>>' =
                <<emitted, responseQ, buffer, ready, analyzerQ, reportQ>>
          /\ callerPc \in {"yielded", "done"} => <<callerGot, frames>>' = <<callerGot, frames>>
          /\ callerPc = "done" => <<conv, reply>>' = <<conv, reply>>
          /\ TimeoutOutcomeOnly']_vars

C16_Witness ==
    /\ sup = "TimedOut"
    /\ entry = "stream"
    /\ callerPc = "done"
    /\ \E k \in Kinds : agentSt[k] = "cancelled"
    /\ \E k \in Kinds : agentSt[k] = "done"

\* C18: a handled request on an existing conversation leaves the log as it
\* was, followed by one user message and one assistant message; the assistant
\* message is not there before the run is in a terminal state.
C18_OneUserOneAssistant ==
    conv.exists =>
        /\ SubSeq(conv.messages, 1, Len(PriorLog)) = PriorLog
        /\ sup \notin Terminal => Len(conv.messages) <= Len(PriorLog) + 1
        /\ callerPc = "done" =>
            /\ Len(conv.messages) = Len(PriorLog) + 2
            /\ conv.messages[Len(PriorLog) + 1] = UserMessage(userQuery)
            /\ conv.messages[Len(PriorLog) + 2].role = "assistant"

\* The events in run r's Context buffer and in its join's input.
EventsOf(r) == Range(ctxBuffer[r]) \cup Range(runs[r].ready)

\* C17: with several runs at once, the events buffered in a run's Context
\* and the events its join passed are the run's own (its user_query, one per
\* finished step and never more), the join passes with the run's four events,
\* and the run's final result carries the run's query.
C17_RunsIsolated ==
    \A r \in RunIds :
        /\ \A ev \in EventsOf(r) : ev.user_query = QueryOf(r)
        /\ Len(ctxBuffer[r]) + Len(runs[r].ready) = runs[r].sent
        /\ runs[r].ready # <<>> =>
            /\ runs[r].sent = ExpectedCount
            /\ KindsOf(runs[r].ready) = Kinds
        /\ runs[r].result # <<>> => runs[r].result[1].user_query = QueryOf(r)

C17_Witness ==
    /\ runs # <<>>
    /\ runs[1].result # <<>>
    /\ runs[2].st = "running"
    /\ Len(ctxBuffer[2]) = 3

ScoringRaised == scoringResp # <<>> /\ scoringResp[1].kind = "raise"

\* C21: when the scoring call raises, no exception leaves analyzer_agent: the
\* step returns its event with score 0 and the error text as rationale, the
\* run does not fail and has a next step to run, and the result it completes
\* with has that score 0.
C21_ScoringRaiseCaught ==
    ScoringRaised =>
        /\ sup # "Failed"
        /\ raisedIn = {}
        /\ analyzerQ # <<>> =>
            analyzerQ[1] = AnalyzerResponseEvent(userQuery, Text("error", FALSE), Num(0))
        /\ sup = "Running" => ENABLED ((\E o \in Outcomes : ReportAgent(o)) \/ FinalAnswer)
        /\ sup = "Completed" =>
            /\ future.state = "result"
            /\ future.result[1].propensity_score = Num(0)
            /\ future.result[1].score_category = "Low"

C21_Witness ==
    /\ ScoringRaised
    /\ sup = "Completed"
    /\ callerPc = "done"
    /\ callerGot.state = "result"

FinalAnswerRan == sup = "Completed" \/ "final_answer" \in raisedIn

\* C23: the stages of a run come in pipeline order: a scoring call is made
\* only when all four analysis steps have returned their event and the join
\* holds the four; report_agent gets an event only after analyzer_agent
\* returned one; final_answer runs only after report_agent returned its
\* report; and while the join has not passed no later stage holds anything.
C23_PipelineOrder ==
    /\ scoringCalls > 0 =>
        /\ \A k \in Kinds : agentSt[k] = "done" /\ Len(emitted[k]) = 1
        /\ Len(ready) = ExpectedCount
        /\ prompt = <<AnalyzerPrompt(ready)>>
    /\ scoringCalls = 0 =>
        /\ ready = <<>> /\ prompt = <<>> /\ scoringResp = <<>>
        /\ analyzerQ = <<>> /\ reportQ = <<>>
        /\ ~FinalAnswerRan
    /\ (analyzerQ # <<>> \/ reportQ # <<>> \/ FinalAnswerRan) =>
        /\ scoringResp # <<>>
        /\ scoringWait = 0
    /\ analyzerQ # <<>> => (reportQ = <<>> /\ ~FinalAnswerRan)
    /\ FinalAnswerRan => (analyzerQ = <<>> /\ reportQ = <<>>)
    /\ sup = "Completed" =>
        future.result[1].response.body \in {ReportText(o) : o \in Outcomes}

C23_Witness ==
    /\ sup = "Completed"
    /\ queuedFirst
    /\ future.result[1].response.body = ReportText("ok")
    /\ \E k \in Kinds : agentOut[k] = "raise"

\* C24: of the four analyzer_agent calls of a run exactly one passes the join,
\* the fourth; the scoring call is made once, one AnalyzerResponseEvent is
\* returned, and the join leaves nothing buffered for a second pass.
C24_OneScoringCall ==
    /\ scoringCalls = (IF collected >= ExpectedCount THEN 1 ELSE 0)
    /\ collected <= ExpectedCount
    /\ scoringWait <= scoringCalls
    /\ Len(scoringResp) = scoringCalls - scoringWait
    /\ Len(analyzerQ) <= Len(scoringResp)
    /\ scoringCalls = 1 => buffer = <<>>
    /\ sup = "Completed" =>
        /\ collected = ExpectedCount
        /\ scoringCalls = 1
        /\ Len(scoringResp) = 1
        /\ analyzerQ = <<>>

C24_Witness ==
    /\ sup = "Completed"
    /\ collected = ExpectedCount
    /\ scoringCalls = 1
    /\ ~queuedFirst

\* The request events sent and not yet taken, and those the steps took.
RequestsSent ==
    requestQ \cup {agentIn[k][1] : k \in {x \in Kinds : agentIn[x] # <<>>}}

\* C25: on the start event trigger_new_stock sends four request events, one
\* of each kind, each with the start event's user_query; every analysis step
\* takes its own event, once.
C25_FanOutFour ==
    /\ (handlerKind # "workflow" \/ startQ) => RequestsSent = {}
    /\ (handlerKind = "workflow" /\ ~startQ) =>
        /\ Cardinality(RequestsSent) = Cardinality(Kinds)
        /\ \A k \in Kinds :
            \E ev \in RequestsSent : ev.kind = k /\ ev.user_query = userQuery
    /\ \A k \in Kinds :
        /\ agentSt[k] = "idle" <=> agentIn[k] = <<>>
        /\ agentIn[k] # <<>> =>
            /\ agentIn[k][1].kind = k
            /\ agentIn[k][1] \notin requestQ
            /\ \A ev \in requestQ : ev.kind # k

C25_Witness ==
    /\ requestQ = {}
    /\ \A k \in Kinds : agentSt[k] = "running"
    /\ userQuery = "Analyze Meta"

ReportRaised == sup = "Completed" /\ future.result[1].response.body = ReportText("raise")

\* C26: when report_agent's text-generation call raises, the step returns one
\* ReportGeneratedEvent with the error text and the incoming score, no
\* exception leaves it, final_answer can take the event, and the completed
\* result has that score with the category the thresholds give it; such a run
\* fails only in final_answer, when the score is nan or inf.
C26_ReportFailureContained ==
    /\ "report_agent" \notin raisedIn
    /\ (reportQ # <<>> /\ reportQ[1].response = ReportText("raise")) =>
        /\ Len(reportQ) = 1
        /\ reportQ[1] =
              ReportGeneratedEvent(userQuery, ReportText("raise"), ParsedScore(scoringResp[1]))
        /\ sup = "Running" => ENABLED FinalAnswer
    /\ ReportRaised =>
        /\ future.result[1].propensity_score = ParsedScore(scoringResp[1])
        /\ future.result[1].score_category =
              ByThresholds(ParsedScore(scoringResp[1])).category
    /\ sup = "Failed" =>
        (handlerKind = "fallback" \/
            (raisedIn = {"final_answer"} /\ ParsedScore(scoringResp[1]).tag # "num"))

C26_Witness ==
    /\ ReportRaised
    /\ future.result[1].score_category = "Medium"
    /\ callerPc = "done"

\* C27: the recommendations report_agent gives the report template are the
\* strategic_recommendations of the scoring answer, in order, and empty when
\* the answer has none.
C27_RecommendationsPassed ==
    analyzerQ # <<>> =>
        ReportPrompt(analyzerQ[1]).strategic_recommendations =
            ResponseRecommendations(scoringResp[1])

\* The message_ids of the stored messages that have one.
StoredIds == {conv.messages[i].message_id : i \in 1..Len(conv.messages)} \ {NoId}

\* C30: with the requests on one conversation interleaved in every order, the
\* message_Id of a request that has not stored its reply is the message_id of
\* no stored message, no store takes the merging branch, and every reply is
\* one new assistant message with the request's message_Id.
C30_MessageIdFresh ==
    /\ \A r \in RequestIds :
        /\ runs[r].pc = "running" => runs[r].msgId \notin StoredIds
        /\ ~runs[r].merged
        /\ (runs[r].pc = "done" /\ runs[r].entry = "stream") =>
            Cardinality({i \in 1..Len(conv.messages) :
                            conv.messages[i].message_id = runs[r].msgId}) = 1
    /\ \A r1, r2 \in RequestIds :
        (r1 # r2 /\ runs[r1].msgId # 0) => runs[r1].msgId # runs[r2].msgId
    /\ \A i \in 1..Len(conv.messages) :
        conv.messages[i].role = "assistant" => conv.messages[i].content.kind # "concat"

C30_Witness ==
    /\ runs # <<>>
    /\ conv.exists
    /\ Len(conv.messages) = Len(PriorLog) + 2 * NumRequests
    /\ SubSeq(conv.messages, 1, Len(PriorLog)) = PriorLog
    /\ \A r \in RequestIds : runs[r].entry = "stream" /\ runs[r].pc = "done"
    /\ conv.messages[Len(PriorLog) + 2].role = "user"
    /\ conv.messages[Len(conv.messages)].message_id = runs[1].msgId

\* The keys of the table found inside the lowercased, trimmed query.
KeysInQuery(q) ==
    {i \in 1..Len(CompanyMappings) :
        Contains(StripChars(LowerChars(q)), CompanyMappings[i].key)}

\* C22: _extract_company_name gives, for every query, the company of the key
\* the lowercased query equals; otherwise the company of a key found inside
\* the lowercased query; otherwise, with no key equal to it or inside it, the
\* query trimmed and title-cased.
C22_ExtractByMatch ==
    out # <<>> =>
        IF \E i \in 1..Len(CompanyMappings) :
                CompanyMappings[i].key = StripChars(LowerChars(arg))
        THEN \E i \in 1..Len(CompanyMappings) :
                /\ CompanyMappings[i].key = StripChars(LowerChars(arg))
                /\ out[1] = Company(CompanyMappings[i].value)
        ELSE IF KeysInQuery(arg) # {}
             THEN \E i \in KeysInQuery(arg) : out[1] = Company(CompanyMappings[i].value)
             ELSE out[1] = Titled(TitleChars(StripChars(arg)))

\* The fenced blocks of t: an opening fence with a fence behind it.
FencedBlocks(t) ==
    {b \in Places(t, {Fence}) \X Places(t, {Fence, BareFence}) : b[1] < b[2]}

\* C28: the text parsed as JSON is the content of the fenced json block when
\* the response has one; otherwise the text from the first "{" to the last
\* "}" when it has both; otherwise the whole response text.
C28_SelectionPriority ==
    out # <<>> =>
        LET t == StripChars(arg)
        IN  IF FencedBlocks(t) # {}
            THEN \E b \in FencedBlocks(t) :
                    out[1] = StripChars(SubSeq(t, b[1] + 1, b[2] - 1))
            ELSE IF Places(t, {"{"}) # {} /\ Places(t, {"}"}) # {}
                 THEN out[1] = SubSeq(t, Min(Places(t, {"{"})), Max(Places(t, {"}"})))
                 ELSE out[1] = t

ScoredEventScore == ParsedScore(scoringResp[1])

\* C31: the score analyzer_agent emits is carried unchanged through
\* report_agent, on its success and on its failure path, into the final
\* result: every event on the way and the final result have the scored
\* event's score, and the result's category is the threshold category of it.
C31_ScoreCarried ==
    /\ \A i \in 1..Len(analyzerQ) : analyzerQ[i].propensity_score = ScoredEventScore
    /\ \A i \in 1..Len(reportQ) : reportQ[i].propensity_score = ScoredEventScore
    /\ future.state = "result" =>
        /\ future.result[1].propensity_score = ScoredEventScore
        /\ future.result[1].score_category = ByThresholds(ScoredEventScore).category

C31_Witness ==
    /\ future.state = "result"
    /\ future.result[1].response.body = ReportText("raise")
    /\ future.result[1].propensity_score = Num(Pts(MaxScore))
    /\ future.result[1].score_category = "High"

\* handle_messages was called with a conversation id the store does not have.
MissingConversation == entry = "stream" /\ ~conv.exists

\* C32: handle_messages called with a conversation id that is not in the store
\* starts no workflow run and leaves the store as it is, and what it returns
\* is the ApiResponse with status 500, no stream.
C32_MissingConversation ==
    [][MissingConversation =>
          /\ conv' = conv
          /\ sup' = "Created"
          /\ handlerKind' = "none"
          /\ future' = Pending
          /\ startQ' = FALSE
          /\ frames' = <<>>
          /\ callerPc = "idle"
          /\ callerPc' = "done"
          /\ reply' = "ApiResponse 500"]_vars

C32_Witness ==
    /\ MissingConversation
    /\ callerPc = "done"
    /\ reply = "ApiResponse 500"
    /\ sup = "Created"

\* C33: send_message_sync writes the conversation store only after the run
\* has delivered its result: a step that changes the store is the one that
\* got the result, and when starting or awaiting the run raised (the timeout
\* included) the store is left as it was and the endpoint returns the error
\* report.
C33_StoreAfterResult ==
    [][entry = "sync" =>
          /\ conv' # conv =>
                /\ callerGot'.state = "result"
                /\ future.state = "result"
                /\ reply' = "report"
          /\ (callerPc # "done" /\ callerPc' = "done" /\ callerGot'.state # "result") =>
                /\ conv' = conv
                /\ reply' = "error report"]_vars

C33_Witness ==
    /\ entry = "sync"
    /\ callerPc = "done"
    /\ callerGot.exc = "WorkflowTimeoutError"
    /\ reply = "error report"
    /\ conv = Conversation(PriorLog)

\* C34: for every score the scoring step can produce, the bar in the final
\* result has exactly 10 cells: int(score) filled cells, then 10 - int(score)
\* empty ones.
C34_ScoreBarTenCells ==
    future.state = "result" =>
        LET bar == future.result[1].response.score_bar
        IN  /\ Len(bar) = BarCells
            /\ \A i \in 1..BarCells :
                  bar[i] = IF i <= IntOf(ScoredEventScore) THEN "full" ELSE "empty"

====
